---- MODULE Spec2Model ----
(***************************************************************************)
(* A model of claude_skill_sync.py: the scanner (list_skill_dirs), the     *)
(* conflict resolver (resolve_conflict), the copy step (copy_skill), the   *)
(* pruner (prune_dest) and the orchestration in main, over an explicit     *)
(* filesystem.                                                             *)
(*                                                                         *)
(* A path is a sequence of names, as pathlib's Path.parts.  The filesystem *)
(* is the set of its entries <<path, value>>: value "dir" for a directory, *)
(* any other value is the content of a regular file.                       *)
(***************************************************************************)
EXTENDS Integers, Sequences, FiniteSets, TLC

VARIABLES
    fs,         \* the filesystem: a set of entries <<path, value>>
    args,       \* the parsed command line (argparse.Namespace) of the current run
    pc,         \* position of the current run of main; "done" when it returned,
                \* "raised" when an exception of the filesystem ended it
    skills,     \* main: the concatenated list of discovered skill directories
    idx,        \* main: position of the for loop over skills (1-based)
    action,     \* copy_skill: its local `action`
    counts,     \* main: counts of copy / overwrite / skip
    pruneList,  \* prune_dest: what is left of list_skill_dirs(dest_root)
    pruned,     \* prune_dest / main: the pruned count
    exitCode,   \* what main returned (0, 1 or 2) once pc is "done"; 0 before
    stdin,      \* number of input lines left before end-of-input
    response,   \* resolve_conflict: what input() gave last: a line, end-of-input,
                \* or nothing when the last step read no input
    decision,   \* copy_skill: the last decision returned by resolve_conflict
    ops,        \* the per-skill actions and prune removals of the current run, in order
    run,        \* number of the current invocation of main
    fs0,        \* history: the filesystem when the current run started
    prev        \* history: args, ops and exit code of the previous run

vars == <<fs, args, pc, skills, idx, action, counts, pruneList, pruned,
          exitCode, stdin, response, decision, ops, run, fs0, prev>>

(***************************************************************************)
(* Bounds of the model.                                                    *)
(***************************************************************************)
MaxInput == 2   \* lines available on standard input before end-of-input
MaxRuns == 2    \* successive invocations of main on the same filesystem

(***************************************************************************)
(* Paths and names.                                                        *)
(***************************************************************************)
MARKER == "SKILL.md"

\* Roots named by the configurations the model draws.
SOURCE == <<"src">>
EXTRA == <<"ext">>
DEST == <<"dest">>
OFFICIAL_PLUGIN_ROOTS == << <<"plugins">>, <<"external_plugins">> >>

\* Names in the order Python compares the strings (code points).
NameRank ==
    [n \in {".h", "SKILL.md", "a", "b", "dest", "ext", "external_plugins",
            "old.txt", "plugins", "src"} |->
        CASE n = ".h" -> 1
          [] n = "SKILL.md" -> 2
          [] n = "a" -> 3
          [] n = "b" -> 4
          [] n = "dest" -> 5
          [] n = "ext" -> 6
          [] n = "external_plugins" -> 7
          [] n = "old.txt" -> 8
          [] n = "plugins" -> 9
          [] n = "src" -> 10]

\* str.startswith("."): the names of the model whose first character is a dot.
startswith_dot(n) == n \in {".h"}

\* Path.name, Path.parent, Path / name, Path.relative_to(root).parts
name(p) == p[Len(p)]
parent(p) == SubSeq(p, 1, Len(p) - 1)
join(p, n) == Append(p, n)
IsPrefix(p, q) == Len(p) <= Len(q) /\ SubSeq(q, 1, Len(p)) = p
relative_to(p, root) == SubSeq(p, Len(root) + 1, Len(p))

\* Ordering of paths: part by part, as PurePath.__lt__.
RECURSIVE PathLess(_, _)
PathLess(p, q) ==
    IF p = <<>> THEN q # <<>>
    ELSE IF q = <<>> THEN FALSE
    ELSE IF Head(p) = Head(q) THEN PathLess(Tail(p), Tail(q))
    ELSE NameRank[Head(p)] < NameRank[Head(q)]

\* sorted(paths)
RECURSIVE sorted(_)
sorted(S) ==
    IF S = {} THEN <<>>
    ELSE LET m == CHOOSE p \in S : \A q \in S \ {p} : PathLess(p, q)
         IN <<m>> \o sorted(S \ {m})

(***************************************************************************)
(* Filesystem primitives.                                                  *)
(***************************************************************************)
exists(f, p) == \E e \in f : e[1] = p
is_dir(f, p) == <<p, "dir">> \in f
is_file(f, p) == \E e \in f : e[1] = p /\ e[2] # "dir"

\* Path.iterdir(): the direct children of p
iterdir(f, p) == {e[1] : e \in {x \in f : Len(x[1]) = Len(p) + 1 /\ IsPrefix(p, x[1])}}

\* Path.rglob(pattern): every entry below p whose name is the pattern
rglob(f, p, pattern) ==
    {e[1] : e \in {x \in f : Len(x[1]) > Len(p) /\ IsPrefix(p, x[1])
                             /\ name(x[1]) = pattern}}

\* The entries at and below p, relative to p
Subtree(f, p) == {<<relative_to(e[1], p), e[2]>> : e \in {x \in f : IsPrefix(p, x[1])}}

\* Path.mkdir(parents=True, exist_ok=True)
mkdir(f, p) == f \cup {<<SubSeq(p, 1, k), "dir">> : k \in 1..Len(p)}


\* shutil.rmtree(p) raises when p is not a directory
rmtree_raises(f, p) == ~is_dir(f, p)

\* A removal that unlinks the directory entry and leaves what is below it.
rmtree_shallow(f, p) == {e \in f : e[1] # p}

\* shutil.rmtree(p): p and everything below it are removed
rmtree(f, p) == {e \in f : ~IsPrefix(p, e[1])}

\* shutil.copytree(src, dst) raises when dst exists
copytree_raises(f, dst) == exists(f, dst)

\* shutil.copytree(src, dst): the tree at src is copied verbatim to dst
copytree(f, src, dst) ==
    mkdir(f, parent(dst)) \cup {<<dst \o e[1], e[2]>> : e \in Subtree(f, src)}

(***************************************************************************)
(* list_skill_dirs                                                         *)
(***************************************************************************)
\* any(part.startswith(".") for part in parts)
any_hidden(parts) == \E i \in DOMAIN parts : startswith_dot(parts[i])

list_skill_dirs_recursive(f, root) ==
    LET files == sorted(rglob(f, root, MARKER))
        keep == SelectSeq(files,
                    LAMBDA sf : ~any_hidden(relative_to(parent(sf), root)))
    IN [i \in 1..Len(keep) |-> parent(keep[i])]

\* A direct scan that forgets the check on the leading dot.
list_skill_dirs_direct_hidden(f, root) ==
    SelectSeq(sorted(iterdir(f, root)),
        LAMBDA entry : is_dir(f, entry) /\ is_file(f, join(entry, MARKER)))

list_skill_dirs_direct(f, root) ==
    SelectSeq(sorted(iterdir(f, root)),
        LAMBDA entry : /\ ~startswith_dot(name(entry))
                       /\ is_dir(f, entry)
                       /\ is_file(f, join(entry, MARKER)))

list_skill_dirs(f, root, recursive) ==
    IF recursive THEN list_skill_dirs_recursive(f, root)
    ELSE list_skill_dirs_direct(f, root)

(***************************************************************************)
(* resolve_conflict: a line of input is a sequence of characters.          *)
(***************************************************************************)
Upper == <<"A", "B", "C", "D", "E", "F", "G", "H", "I", "J", "K", "L", "M",
           "N", "O", "P", "Q", "R", "S", "T", "U", "V", "W", "X", "Y", "Z">>
Lower == <<"a", "b", "c", "d", "e", "f", "g", "h", "i", "j", "k", "l", "m",
           "n", "o", "p", "q", "r", "s", "t", "u", "v", "w", "x", "y", "z">>
Whitespace == {" ", "\t", "\n"}

\* str.lower()
lower(s) ==
    [i \in DOMAIN s |->
        IF \E k \in DOMAIN Upper : Upper[k] = s[i]
        THEN Lower[CHOOSE k \in DOMAIN Upper : Upper[k] = s[i]]
        ELSE s[i]]

\* str.strip()
RECURSIVE lstrip(_)
lstrip(s) == IF s # <<>> /\ Head(s) \in Whitespace THEN lstrip(Tail(s)) ELSE s
RECURSIVE rstrip(_)
rstrip(s) ==
    IF s # <<>> /\ s[Len(s)] \in Whitespace THEN rstrip(SubSeq(s, 1, Len(s) - 1)) ELSE s
strip(s) == rstrip(lstrip(s))

OverwriteWords == {<<"o">>, <<"o", "v", "e", "r", "w", "r", "i", "t", "e">>,
                   <<"y">>, <<"y", "e", "s">>}
SkipWords == {<<"s">>, <<"s", "k", "i", "p">>, <<>>, <<"n">>, <<"n", "o">>}
AbortWords == {<<"a">>, <<"a", "b", "o", "r", "t">>, <<"q">>, <<"q", "u", "i", "t">>}

\* A classification that does not take the empty line for skip.
classify_no_default(line) ==
    LET r == lower(strip(line))
    IN IF r \in OverwriteWords THEN "overwrite"
       ELSE IF r \in SkipWords \ {<<>>} THEN "skip"
       ELSE IF r \in AbortWords THEN "abort"
       ELSE "reprompt"

\* One pass of the while loop on a line that was read: the decision returned,
\* or "reprompt" when the loop goes round again.
classify(line) ==
    LET r == lower(strip(line))
    IN IF r \in OverwriteWords THEN "overwrite"
       ELSE IF r \in SkipWords THEN "skip"
       ELSE IF r \in AbortWords THEN "abort"
       ELSE "reprompt"

\* A resolver that takes the fixed policy skip for overwrite.
resolve_conflict_clobber(policy, dry_run) ==
    IF policy = "skip" THEN "overwrite"
    ELSE IF policy # "ask" THEN policy
    ELSE IF dry_run THEN "skip"
    ELSE "prompt"

\* The part of resolve_conflict before the prompt: the decision, or "prompt"
\* when input is needed.
resolve_conflict(policy, dry_run) ==
    IF policy # "ask" THEN policy
    ELSE IF dry_run THEN "skip"
    ELSE "prompt"

(***************************************************************************)
(* The filesystems and command lines the model starts from.                *)
(***************************************************************************)
Dir(p) == <<p, "dir">>
File(p, data) == <<p, data>>
\* A skill directory: a directory that directly contains the marker file.
SkillAt(p, data) == {Dir(p), File(join(p, MARKER), data)}

\* What may be at the official plugin roots.
PluginTrees ==
    { {Dir(<<"plugins">>), Dir(<<"plugins", "a">>)}
          \cup SkillAt(<<"plugins", "a", "b">>, "p"),
      {Dir(<<"plugins">>), Dir(<<"plugins", "a">>), File(<<"external_plugins">>, "x")}
          \cup SkillAt(<<"plugins", "a", "b">>, "p") }

\* What may be at the destination root.
DestMissing == {}
DestOldStale ==
    {Dir(DEST), File(<<"dest", "a", "old.txt">>, "old")}
        \cup SkillAt(<<"dest", "a">>, "old") \cup SkillAt(<<"dest", "b">>, "old")
DestMixed ==
    {Dir(DEST), Dir(<<"dest", "a">>), File(<<"dest", "a", "old.txt">>, "old")}
        \cup SkillAt(<<"dest", ".h">>, "old") \cup SkillAt(<<"dest", "b">>, "old")
DestTrees ==
    { DestMissing,
      {Dir(DEST)},
      {Dir(DEST), File(<<"dest", "a", "old.txt">>, "old")} \cup SkillAt(<<"dest", "a">>, "old"),
      DestOldStale,
      {Dir(DEST), File(<<"dest", "a">>, "old")} \cup SkillAt(<<"dest", "b">>, "old"),
      DestMixed,
      {Dir(DEST), File(<<"dest", "b">>, "old")} }

\* Trees of the primary source root, by what they hold
SourceAbsent == {}
SourceFile == {File(SOURCE, "x")}
SourceEmpty == {Dir(SOURCE)}
SourceA == {Dir(SOURCE)} \cup SkillAt(<<"src", "a">>, "s")
SourceAB == SourceA \cup SkillAt(<<"src", "b">>, "s")
SourceMixed ==
    {Dir(SOURCE), File(<<"src", "b">>, "s")}
        \cup SkillAt(<<"src", "a">>, "s") \cup SkillAt(<<"src", ".h">>, "s")
SourceNested ==
    {Dir(SOURCE), Dir(<<"src", "b">>)}
        \cup SkillAt(<<"src", "a">>, "s") \cup SkillAt(<<"src", "b", "a">>, "n")

\* What may be at the primary source root.
SourceTrees ==
    {SourceAbsent, SourceFile, SourceEmpty, SourceA, SourceAB, SourceMixed,
     SourceNested}

\* A source side: the files of the source roots and the options that name them.
Side(t, x, plugins, r) ==
    [tree |-> t \cup x.tree, extra_source |-> x.extra_source,
     include_official_plugins |-> plugins, recursive |-> r]

\* The extra source roots given and what is at them.
NoExtra == [extra_source |-> <<>>, tree |-> {}]
ExtraAbsent == [extra_source |-> <<EXTRA>>, tree |-> {}]
ExtraA == [extra_source |-> <<EXTRA>>, tree |-> {Dir(EXTRA)} \cup SkillAt(<<"ext", "a">>, "e")]
ExtraB == [extra_source |-> <<EXTRA>>, tree |-> {Dir(EXTRA)} \cup SkillAt(<<"ext", "b">>, "e")]

ExtraSources == {NoExtra, ExtraAbsent, ExtraA, ExtraB}

SourceSides ==
    {Side(t, x, FALSE, FALSE) : t \in SourceTrees \ {SourceNested}, x \in ExtraSources}
    \cup {Side(t, x, FALSE, TRUE) : t \in {SourceA, SourceMixed, SourceNested},
                                    x \in {NoExtra, ExtraA}}
    \cup {Side(SourceNested, NoExtra, FALSE, FALSE)}
    \cup {Side(t \cup o, NoExtra, TRUE, FALSE) : t \in {SourceAbsent, SourceA},
                                                o \in PluginTrees}

\* A few source sides, met with every destination.
FewSourceSides ==
    { Side(SourceA, NoExtra, FALSE, FALSE),
      Side(SourceNested, NoExtra, FALSE, TRUE),
      Side(SourceAB, ExtraA, FALSE, FALSE),
      Side(SourceAB, ExtraB, FALSE, FALSE) }

FewScenarios == {[side |-> s, dest |-> d] : s \in FewSourceSides, d \in DestTrees}

\* The scenarios the prompt loop is followed on.
PromptScenarios ==
    {[side |-> s, dest |-> d] :
        s \in {Side(SourceA, NoExtra, FALSE, FALSE), Side(SourceAB, ExtraA, FALSE, FALSE)},
        d \in {DestMissing, DestOldStale, DestMixed}}

Scenarios ==
    {[side |-> s, dest |-> d] : s \in SourceSides, d \in {DestMissing, DestOldStale}}
    \cup FewScenarios

Policies == {"ask", "skip", "overwrite", "abort"}

\* parse_args
parse_args(side, mode, conflict, dry_run, prune) ==
    [source |-> SOURCE, extra_source |-> side.extra_source,
     recursive |-> side.recursive,
     include_official_plugins |-> side.include_official_plugins,
     dest |-> DEST, mode |-> mode, conflict |-> conflict,
     dry_run |-> dry_run, prune |-> prune]

\* The lines a user may type at the prompt.
Lines == { <<"o">>, <<" ", "Y", "e", "s", "\n">>, <<>>, <<"N", "O">>,
           <<"Q">>, <<"a", "b", "o", "r", "t">>, <<"x">>, <<"o", "k">> }

\* What input() gives
NoLine == [kind |-> "none"]
EndOfInput == [kind |-> "EOF"]
Line(text) == [kind |-> "line", text |-> text]

NoCounts == [copy |-> 0, overwrite |-> 0, skip |-> 0]
NoPrev == [run |-> 0]

\* Standard input of a run (read only under --conflict ask): no terminal,
\* or a terminal where the user types up to MaxInput lines.
Stdins(conflict) == IF conflict = "ask" THEN {0, MaxInput} ELSE {0}

\* The mode and the prune flag; sync without --prune runs as copy does.
ModeFlags(sc) ==
    {<<"copy", FALSE>>, <<"copy", TRUE>>, <<"sync", TRUE>>}
    \cup (IF sc \in FewScenarios THEN {<<"sync", FALSE>>} ELSE {})

InitFrom(scenarios) ==
    /\ \E sc \in scenarios, conflict \in Policies, dry_run \in BOOLEAN :
          \E mp \in ModeFlags(sc) :
              /\ fs = sc.side.tree \cup sc.dest
              /\ args = parse_args(sc.side, mp[1], conflict, dry_run, mp[2])
              /\ stdin \in Stdins(conflict)
    /\ fs0 = fs
    /\ pc = "main"
    /\ skills = <<>>
    /\ idx = 1
    /\ action = "none"
    /\ counts = NoCounts
    /\ pruneList = <<>>
    /\ pruned = 0
    /\ exitCode = 0
    /\ response = NoLine
    /\ decision = "none"
    /\ ops = <<>>
    /\ run = 1
    /\ prev = NoPrev

Init == InitFrom(Scenarios)

\* The initial states the prompt loop is followed from
PromptInit == InitFrom(PromptScenarios)

(***************************************************************************)
(* main, up to the scan                                                    *)
(***************************************************************************)
\* main: the configured source roots, in order, each with its recursion flag
sources(a) ==
    <<[path |-> a.source, recursive |-> a.recursive]>>
    \o [i \in 1..Len(a.extra_source) |->
            [path |-> a.extra_source[i], recursive |-> a.recursive]]
    \o (IF a.include_official_plugins
        THEN [i \in 1..Len(OFFICIAL_PLUGIN_ROOTS) |->
                 [path |-> OFFICIAL_PLUGIN_ROOTS[i], recursive |-> TRUE]]
        ELSE <<>>)

\* main: the roots that exist and are directories
valid_sources(f, a) ==
    SelectSeq(sources(a), LAMBDA s : exists(f, s.path) /\ is_dir(f, s.path))

\* A scan that puts the later roots first.
RECURSIVE scan_reversed(_, _)
scan_reversed(f, vs) ==
    IF vs = <<>> THEN <<>>
    ELSE scan_reversed(f, Tail(vs)) \o list_skill_dirs(f, Head(vs).path, Head(vs).recursive)

\* main: the scans of the valid roots, concatenated
RECURSIVE scan(_, _)
scan(f, vs) ==
    IF vs = <<>> THEN <<>>
    ELSE list_skill_dirs(f, Head(vs).path, Head(vs).recursive) \o scan(f, Tail(vs))

\* A flag check with the comparison the wrong way round.
usage_error_inverted(a) == a.prune /\ a.mode = "sync"

\* main: --prune without --mode sync
usage_error(a) == a.prune /\ a.mode # "sync"

\* copy_skill: dest_root / src_dir.name
dest_dir_of(a, src_dir) == join(a.dest, name(src_dir))

\* A set of the skills' paths where their names are meant.
source_names_paths(sk) == {sk[i] : i \in DOMAIN sk}

\* main: {skill.name for skill in skills}
source_names(sk) == {name(sk[i]) : i \in DOMAIN sk}

\* main: the position of the loop after the skill at idx is done
after_skill(i, sk) == IF i + 1 > Len(sk) THEN "after_loop" ELSE "copy_skill"

\* main, lines 208-212: the destination root is created unless it is a dry run
ensure_dest(f, a) ==
    IF ~exists(f, a.dest) /\ ~a.dry_run THEN mkdir(f, a.dest) ELSE f

\* A copy step that removes the destination before it looks at the decision.
decided_fs_eager(f, d, dry_run, dest_dir) ==
    IF d # "skip" /\ ~dry_run THEN rmtree(f, dest_dir) ELSE f

\* copy_skill, lines 138-145: what a decision does to the filesystem
decided_fs(f, d, dry_run, dest_dir) ==
    IF d = "overwrite" /\ ~dry_run THEN rmtree(f, dest_dir) ELSE f

\* A pruner that removes in a dry run too.
prune_entry_always(f, dry_run, dest_skill) == rmtree(f, dest_skill)

\* prune_dest, lines 163-166: what the loop does with a stale destination skill
prune_entry(f, dry_run, dest_skill) ==
    IF dry_run THEN f ELSE rmtree(f, dest_skill)

\* main: lines 172-206, from the flag check to the scan
Main ==
    /\ pc = "main"
    /\ IF usage_error(args)
       THEN /\ pc' = "done" /\ exitCode' = 1 /\ skills' = <<>>
       ELSE IF valid_sources(fs, args) = <<>>
       THEN /\ pc' = "done" /\ exitCode' = 1 /\ skills' = <<>>
       ELSE IF scan(fs, valid_sources(fs, args)) = <<>>
       THEN /\ pc' = "done" /\ exitCode' = 0 /\ skills' = <<>>
       ELSE /\ pc' = "mkdir" /\ exitCode' = exitCode
            /\ skills' = scan(fs, valid_sources(fs, args))
    /\ response' = NoLine /\ decision' = "none"
    /\ UNCHANGED <<fs, args, idx, action, counts, pruneList, pruned, stdin,
                   ops, run, fs0, prev>>

\* main: lines 208-222, the destination root is created unless it is a dry run
EnsureDest ==
    /\ pc = "mkdir"
    /\ fs' = ensure_dest(fs, args)
    /\ counts' = NoCounts
    /\ idx' = 1
    /\ pc' = "copy_skill"
    /\ response' = NoLine /\ decision' = "none"
    /\ UNCHANGED <<args, skills, action, pruneList, pruned, exitCode, stdin,
                   ops, run, fs0, prev>>

(***************************************************************************)
(* copy_skill and the loop of main around it                               *)
(***************************************************************************)
\* main, lines 231-232: the action returned by copy_skill is counted and printed
Tally(act) ==
    /\ counts' = [counts EXCEPT ![act] = @ + 1]
    /\ ops' = Append(ops, [act |-> act, skill |-> skills[idx]])
    /\ idx' = idx + 1
    /\ pc' = after_skill(idx, skills)

\* copy_skill, lines 138-145, and main, lines 233-235: what follows a decision
Decided(d) ==
    LET dest_dir == dest_dir_of(args, skills[idx])
    IN /\ decision' = d
       /\ CASE d = "skip" ->
                 /\ Tally("skip")
                 /\ fs' = decided_fs(fs, d, args.dry_run, dest_dir)
                 /\ UNCHANGED <<action, exitCode>>
            [] d = "abort" ->
                 /\ pc' = "done" /\ exitCode' = 2
                 /\ fs' = decided_fs(fs, d, args.dry_run, dest_dir)
                 /\ UNCHANGED <<action, counts, ops, idx>>
            [] d = "overwrite" ->
                 /\ action' = "overwrite"
                 /\ IF ~args.dry_run /\ rmtree_raises(fs, dest_dir)
                    THEN /\ pc' = "raised" /\ exitCode' = exitCode
                         /\ UNCHANGED fs
                    ELSE /\ fs' = decided_fs(fs, d, args.dry_run, dest_dir)
                         /\ pc' = "copytree"
                         /\ UNCHANGED exitCode
                 /\ UNCHANGED <<counts, ops, idx>>

\* copy_skill, lines 133-145
CopySkill ==
    /\ pc = "copy_skill"
    /\ LET dest_dir == dest_dir_of(args, skills[idx])
       IN IF exists(fs, dest_dir)
          THEN IF resolve_conflict(args.conflict, args.dry_run) = "prompt"
               THEN /\ pc' = "input"
                    /\ decision' = "none"
                    /\ action' = "copy"
                    /\ UNCHANGED <<fs, counts, ops, idx, exitCode>>
               ELSE Decided(resolve_conflict(args.conflict, args.dry_run))
          ELSE /\ pc' = "copytree"
               /\ decision' = "none"
               /\ action' = "copy"
               /\ UNCHANGED <<fs, counts, ops, idx, exitCode>>
    /\ response' = NoLine
    /\ UNCHANGED <<args, skills, pruneList, pruned, stdin, run, fs0, prev>>

\* resolve_conflict, lines 106-124: one pass of the prompt loop
ReadInput ==
    /\ pc = "input"
    /\ IF stdin = 0
       THEN /\ response' = EndOfInput
            /\ stdin' = stdin
            /\ Decided("abort")
       ELSE \E line \in Lines :
            /\ response' = Line(line)
            /\ stdin' = stdin - 1
            /\ IF classify(line) = "reprompt"
               THEN UNCHANGED <<fs, pc, action, counts, ops, idx, exitCode, decision>>
               ELSE Decided(classify(line))
    /\ UNCHANGED <<args, skills, pruneList, pruned, run, fs0, prev>>

\* copy_skill, lines 147-151
CopyTree ==
    /\ pc = "copytree"
    /\ LET src_dir == skills[idx]
           dest_dir == dest_dir_of(args, skills[idx])
       IN IF args.dry_run
          THEN /\ Tally(action)
               /\ UNCHANGED <<fs, exitCode>>
          ELSE IF copytree_raises(fs, dest_dir)
          THEN /\ pc' = "raised" /\ exitCode' = exitCode
               /\ UNCHANGED <<fs, counts, ops, idx>>
          ELSE /\ fs' = copytree(fs, src_dir, dest_dir)
               /\ Tally(action)
               /\ UNCHANGED exitCode
    /\ response' = NoLine /\ decision' = "none"
    /\ UNCHANGED <<args, skills, action, pruneList, pruned, stdin, run, fs0, prev>>

(***************************************************************************)
(* pruning and the end of main                                             *)
(***************************************************************************)
\* main, lines 237-246, and prune_dest, lines 159-160
AfterLoop ==
    /\ pc = "after_loop"
    /\ IF args.mode = "sync" /\ args.prune /\ exists(fs, args.dest)
       THEN /\ pruneList' = list_skill_dirs(fs, args.dest, FALSE)
            /\ pc' = IF pruneList' = <<>> THEN "summary" ELSE "prune"
       ELSE /\ pruneList' = <<>>
            /\ pc' = "summary"
    /\ pruned' = 0
    /\ response' = NoLine /\ decision' = "none"
    /\ UNCHANGED <<fs, args, skills, idx, action, counts, exitCode, stdin,
                   ops, run, fs0, prev>>

\* prune_dest, lines 160-167: one pass of its loop
PruneEntry ==
    /\ pc = "prune"
    /\ LET dest_skill == Head(pruneList)
       IN IF name(dest_skill) \in source_names(skills)
          THEN UNCHANGED <<fs, ops, pruned>>
          ELSE /\ fs' = prune_entry(fs, args.dry_run, dest_skill)
               /\ ops' = Append(ops, [act |-> "prune", skill |-> dest_skill])
               /\ pruned' = pruned + 1
    /\ pruneList' = Tail(pruneList)
    /\ pc' = IF pruneList' = <<>> THEN "summary" ELSE "prune"
    /\ response' = NoLine /\ decision' = "none"
    /\ UNCHANGED <<args, skills, idx, action, counts, exitCode, stdin, run, fs0, prev>>

\* main, lines 248-255
Summary ==
    /\ pc = "summary"
    /\ pc' = "done"
    /\ exitCode' = 0
    /\ response' = NoLine /\ decision' = "none"
    /\ UNCHANGED <<fs, args, skills, idx, action, counts, pruneList, pruned,
                   stdin, ops, run, fs0, prev>>

\* The program is invoked again on the filesystem the last run left, with the
\* same command line but for --dry-run.
Restart ==
    /\ pc \in {"done", "raised"}
    /\ run < MaxRuns
    /\ \E dry_run \in BOOLEAN :
          args' = [args EXCEPT !.dry_run = dry_run]
    /\ stdin' \in Stdins(args.conflict)
    /\ prev' = [run |-> run, args |-> args, ops |-> ops, exitCode |-> exitCode,
                counts |-> counts, pruned |-> pruned, skills |-> skills,
                fs0 |-> fs0]
    /\ fs0' = fs
    /\ run' = run + 1
    /\ pc' = "main"
    /\ skills' = <<>>
    /\ idx' = 1
    /\ action' = "none"
    /\ counts' = NoCounts
    /\ pruneList' = <<>>
    /\ pruned' = 0
    /\ exitCode' = 0
    /\ response' = NoLine
    /\ decision' = "none"
    /\ ops' = <<>>
    /\ UNCHANGED fs

Next ==
    \/ Main
    \/ EnsureDest
    \/ CopySkill
    \/ ReadInput
    \/ CopyTree
    \/ AfterLoop
    \/ PruneEntry
    \/ Summary
    \/ Restart

Spec == Init /\ [][Next]_vars

\* input() returns: the terminal delivers a line or end-of-input
FairSpec == PromptInit /\ [][Next]_vars /\ WF_vars(ReadInput)

(***************************************************************************)
(* Vocabulary of the properties.                                           *)
(***************************************************************************)
\* The tree at the destination entry called n ({} when there is none)
DestEntry(f, n) == Subtree(f, join(args.dest, n))

\* The names of the top-level entries of the destination root
DestNames(f) == {name(p) : p \in iterdir(f, args.dest)}

\* The names of the skills of the list
SkillNames == {name(skills[i]) : i \in DOMAIN skills}

\* The positions of the skill list whose skill is called n
Occurrences(n) == {i \in DOMAIN skills : name(skills[i]) = n}
Max(S) == CHOOSE x \in S : \A y \in S : y <= x
Min(S) == CHOOSE x \in S : \A y \in S : x <= y

\* The positions of ops that are per-skill actions, and those that are removals
SkillOps == {i \in DOMAIN ops : ops[i].act # "prune"}
PruneOps == {i \in DOMAIN ops : ops[i].act = "prune"}

\* The last position before k at which the skill called n was copied or
\* overwritten, in a set (empty when there is none)
Written(n, k) ==
    {i \in SkillOps : i < k /\ name(ops[i].skill) = n
                      /\ ops[i].act \in {"copy", "overwrite"}}

\* Everything outside the destination root
Outside(f) == {e \in f : ~IsPrefix(args.dest, e[1])}

(***************************************************************************)
(* C1. Preview purity: in every state of a dry run, whatever the mode, the *)
(* conflict policy, the prune flag and the destination, the filesystem is  *)
(* the one the run started from.                                           *)
(***************************************************************************)
C1_PreviewPurity == args.dry_run => fs = fs0

\* A dry run that ended after announcing an overwrite and a removal.
C1_Witness ==
    /\ args.dry_run /\ pc = "done" /\ exitCode = 0
    /\ \E i \in SkillOps : ops[i].act = "overwrite"
    /\ PruneOps # {}

(***************************************************************************)
(* C2. Preview fidelity, for the fixed policies and the runs that return:  *)
(* the per-skill actions and prune removals a dry run announced are the    *)
(* ones the run after it, with the same command line but for --dry-run,    *)
(* performs on the same filesystem.                                        *)
(***************************************************************************)
C2_PreviewFidelity ==
    (/\ pc = "done" /\ prev.run # 0
     /\ prev.args.dry_run /\ ~args.dry_run
     /\ prev.args = [args EXCEPT !.dry_run = TRUE]
     /\ prev.fs0 = fs0
     /\ args.conflict # "ask"
     /\ exitCode \in {0, 2})
    => ops = prev.ops

(***************************************************************************)
(* C3. Prune correctness as claimed: after a run with --mode sync --prune  *)
(* that is no dry run and returns 0 with skills discovered, the top-level  *)
(* entries of the destination root are exactly the discovered skill names. *)
(***************************************************************************)
PruneRunDone ==
    /\ pc = "done" /\ exitCode = 0 /\ skills # <<>>
    /\ ~args.dry_run /\ args.mode = "sync" /\ args.prune

C3_PruneExact == PruneRunDone => DestNames(fs) = SkillNames

\* Whether the top-level destination entry p is a skill of the scanner's kind
IsDestSkill(f, p) ==
    /\ ~startswith_dot(name(p))
    /\ <<p, "dir">> \in f
    /\ \E e \in f : e[1] = join(p, MARKER) /\ e[2] # "dir"

(***************************************************************************)
(* C3, amended. After such a run every discovered skill name is a          *)
(* top-level entry of the destination root, every top-level entry that is  *)
(* a non-hidden directory directly containing the marker file has a        *)
(* discovered name, and the entries with no discovered name that are       *)
(* hidden, no directories or without the marker file are as they were.     *)
(***************************************************************************)
C3_PruneSkillsOnly ==
    PruneRunDone =>
        /\ SkillNames \subseteq DestNames(fs)
        /\ \A p \in iterdir(fs, args.dest) :
              IsDestSkill(fs, p) => name(p) \in SkillNames
        /\ \A p \in iterdir(fs0, args.dest) :
              (~IsDestSkill(fs0, p) /\ Occurrences(name(p)) = {})
                  => DestEntry(fs, name(p)) = DestEntry(fs0, name(p))

\* A pruning run that removed a stale skill and kept a hidden entry, so that
\* the destination holds a name that was not discovered.
C3_Witness ==
    /\ PruneRunDone
    /\ pruned >= 1
    /\ \E p \in iterdir(fs, args.dest) : startswith_dot(name(p))
    /\ DestNames(fs) # SkillNames

(***************************************************************************)
(* C4. Abort propagation: when the conflict resolution for the skill at    *)
(* position idx yields abort, main returns 2 at once; the skills before    *)
(* idx are the only ones acted on, the destination holds what their copies *)
(* and overwrites put there and is otherwise as the run found it (so the   *)
(* entry of the skill at idx is neither removed nor rewritten), and        *)
(* nothing is pruned.                                                      *)
(***************************************************************************)
\* What the destination entry n holds after the actions recorded in ops
Replayed(n) ==
    IF args.dry_run \/ Written(n, Len(ops) + 1) = {}
    THEN DestEntry(fs0, n)
    ELSE Subtree(fs0, ops[Max(Written(n, Len(ops) + 1))].skill)

C4_AbortPropagation ==
    decision = "abort" =>
        /\ pc = "done" /\ exitCode = 2
        /\ Len(ops) = idx - 1
        /\ \A j \in DOMAIN ops : ops[j].act # "prune" /\ ops[j].skill = skills[j]
        /\ pruned = 0
        /\ DestEntry(fs, name(skills[idx])) # {}
        /\ \A n \in DestNames(fs) \cup DestNames(fs0) \cup SkillNames :
              DestEntry(fs, n) = Replayed(n)
        /\ Outside(fs) = Outside(fs0)

\* An abort in the middle of the list, after an earlier skill was written.
C4_Witness ==
    /\ decision = "abort" /\ ~args.dry_run
    /\ 1 < idx /\ idx < Len(skills)
    /\ \E n \in SkillNames : Written(n, idx) # {}

(***************************************************************************)
(* C5. Idempotence under skip: in a run with --mode copy --conflict skip   *)
(* that follows a run with the same command line (neither a dry run), the  *)
(* filesystem stays as the first run left it and every processed skill is  *)
(* reported as skip; the run processes the whole list and returns what the *)
(* first run returned.                                                     *)
(***************************************************************************)
SecondSkipRun ==
    /\ prev.run # 0
    /\ prev.args = args
    /\ ~args.dry_run /\ args.mode = "copy" /\ args.conflict = "skip"

C5_IdempotentSkip ==
    SecondSkipRun =>
        /\ fs = fs0
        /\ counts.copy = 0 /\ counts.overwrite = 0
        /\ \A i \in DOMAIN ops : ops[i].act = "skip"
        /\ pc = "done" => /\ exitCode = prev.exitCode
                          /\ Len(ops) = Len(skills)
                          /\ counts.skip = Len(skills)

\* A second run over a list with a name that occurs twice, after a first run
\* that copied.
C5_Witness ==
    /\ SecondSkipRun /\ pc = "done" /\ exitCode = 0
    /\ prev.counts.copy >= 1
    /\ \E i, j \in DOMAIN skills : i # j /\ name(skills[i]) = name(skills[j])

(***************************************************************************)
(* C6. Overwrite correctness as claimed: after a run with --conflict       *)
(* overwrite that is no dry run and returns 0, the destination entry of    *)
(* every source skill whose name was at the destination with other content *)
(* has exactly the content of that source skill.                           *)
(***************************************************************************)
OverwriteRunDone ==
    /\ pc = "done" /\ exitCode = 0
    /\ ~args.dry_run /\ args.conflict = "overwrite"

\* The skill at position i found its name at the destination with other content
Differs(i) ==
    /\ DestEntry(fs0, name(skills[i])) # {}
    /\ DestEntry(fs0, name(skills[i])) # Subtree(fs0, skills[i])

C6_OverwriteExact ==
    OverwriteRunDone =>
        \A i \in DOMAIN skills :
            Differs(i) => DestEntry(fs, name(skills[i])) = Subtree(fs0, skills[i])

(***************************************************************************)
(* C6, amended. After such a run the destination entry has exactly the     *)
(* content of the last source skill of that name in the processing order   *)
(* (the source skill itself when its name is discovered once), nothing of  *)
(* the old version is left, and between the removal and the copy of an     *)
(* overwrite nothing is at the destination entry.                          *)
(***************************************************************************)
C6_OverwriteLast ==
    /\ (pc = "copytree" /\ action = "overwrite" /\ ~args.dry_run)
          => DestEntry(fs, name(skills[idx])) = {}
    /\ OverwriteRunDone =>
          \A i \in DOMAIN skills :
              Differs(i) =>
                  DestEntry(fs, name(skills[i]))
                      = Subtree(fs0, skills[Max(Occurrences(name(skills[i])))])

\* An overwrite of a destination skill that held a file the source has not.
C6_Witness ==
    /\ OverwriteRunDone
    /\ counts.overwrite >= 1
    /\ <<<<"dest", "a", "old.txt">>, "old">> \in fs0
    /\ \A e \in fs : e[1] # <<"dest", "a", "old.txt">>
    /\ \E i \in DOMAIN skills : name(skills[i]) = "a" /\ Differs(i)

(***************************************************************************)
(* C7. Usage errors: with --prune and a mode other than sync, or with no   *)
(* configured source root that is a directory, main goes from its start    *)
(* straight to returning 1 and the filesystem is as it was; and when the   *)
(* flags are valid and some root is a directory, main does not return 1.   *)
(***************************************************************************)
ConfiguredRoots ==
    {args.source}
    \cup {args.extra_source[i] : i \in DOMAIN args.extra_source}
    \cup (IF args.include_official_plugins
          THEN {OFFICIAL_PLUGIN_ROOTS[i] : i \in DOMAIN OFFICIAL_PLUGIN_ROOTS}
          ELSE {})
BadFlags == args.prune /\ args.mode # "sync"
NoValidRoot == \A r \in ConfiguredRoots : <<r, "dir">> \notin fs0

C7_UsageErrors ==
    /\ (BadFlags \/ NoValidRoot) =>
          /\ pc \in {"main", "done"}
          /\ fs = fs0
          /\ ops = <<>>
          /\ pc = "done" => exitCode = 1
    /\ (~BadFlags /\ ~NoValidRoot) => ~(pc = "done" /\ exitCode = 1)

\* A run with --prune --mode copy over valid sources and stale destination
\* entries, which returned 1.
C7_Witness ==
    /\ pc = "done" /\ exitCode = 1
    /\ BadFlags /\ ~NoValidRoot /\ ~args.dry_run
    /\ DestNames(fs) # {}

(***************************************************************************)
(* C8. The ask policy never hangs.  A line that is recognized once         *)
(* stripped and lowered gives its decision at once, the empty line gives   *)
(* skip, an unrecognized line leaves the resolver prompting, end-of-input  *)
(* gives abort; with a fixed policy or in a dry run no input is read and   *)
(* the decision is the policy (skip for ask in a dry run); and every       *)
(* prompt leads to one of the three decisions.                             *)
(***************************************************************************)
Decisions == {"overwrite", "skip", "abort"}

C8_Resolver ==
    /\ (args.conflict # "ask" \/ args.dry_run) =>
          /\ response = NoLine
          /\ pc # "input"
          /\ decision \in {"none", IF args.conflict = "ask" THEN "skip" ELSE args.conflict}
    /\ pc = "input" => decision = "none"
    /\ response = EndOfInput => decision = "abort" /\ stdin = 0
    /\ response.kind = "line" =>
          LET r == lower(strip(response.text))
          IN /\ r \in OverwriteWords => decision = "overwrite"
             /\ r \in SkipWords => decision = "skip"
             /\ r \in AbortWords => decision = "abort"
             /\ r \notin OverwriteWords \cup SkipWords \cup AbortWords
                   => decision = "none" /\ pc = "input"
             /\ response.text = <<>> => decision = "skip"

C8_AskTerminates ==
    /\ []C8_Resolver
    /\ (pc = "input") ~> (decision \in Decisions)

\* At the prompt for the first conflict of a run the input ended, and the
\* resolver gave abort.
C8_Witness ==
    /\ response = EndOfInput /\ decision = "abort"
    /\ prev.run = 0 /\ ops = <<>>
    /\ args.conflict = "ask" /\ ~args.dry_run

(***************************************************************************)
(* C9. Duplicate names as claimed.  For a name that is in the skill list   *)
(* more than once and was not at the destination when a run that is no dry *)
(* run started: the list is in the order of the configured roots, the      *)
(* first occurrence is processed as a copy and the later ones as           *)
(* conflicts; when the run has ended the destination holds the last        *)
(* source's content under overwrite and the first's under skip, and under  *)
(* abort the exit code is 2 and the first source's copy is in place.       *)
(***************************************************************************)
DuplicateNames ==
    {n \in SkillNames : Cardinality(Occurrences(n)) >= 2 /\ DestEntry(fs0, n) = {}}

\* The position among the configured roots of the root a skill was found in
RootIndex(p) ==
    CHOOSE k \in DOMAIN sources(args) : IsPrefix(sources(args)[k].path, p)

InRootOrder ==
    \A i, j \in DOMAIN skills : i < j => RootIndex(skills[i]) <= RootIndex(skills[j])

\* How the occurrences of n that were processed so far were processed
ProcessedAsCopyThenConflict(n) ==
    \A i \in Occurrences(n) :
        i \in DOMAIN ops =>
            IF i = Min(Occurrences(n)) THEN ops[i].act = "copy"
            ELSE ops[i].act \in {"overwrite", "skip"}

First(n) == Subtree(fs0, skills[Min(Occurrences(n))])
Last(n) == Subtree(fs0, skills[Max(Occurrences(n))])

C9_Duplicates ==
    ~args.dry_run =>
        /\ InRootOrder
        /\ \A n \in DuplicateNames :
              /\ ProcessedAsCopyThenConflict(n)
              /\ (pc \in {"done", "raised"} /\ args.conflict = "overwrite")
                    => DestEntry(fs, n) = Last(n)
              /\ (pc \in {"done", "raised"} /\ args.conflict = "skip")
                    => DestEntry(fs, n) = First(n)
              /\ (pc \in {"done", "raised"} /\ args.conflict = "abort")
                    => /\ pc = "done" /\ exitCode = 2
                       /\ DestEntry(fs, n) = First(n)

(***************************************************************************)
(* C9, amended.  The final contents are those of a run that returns 0;     *)
(* under abort the run returns 2 no later than at the second occurrence,   *)
(* and the first source's copy is in place when the first occurrence was   *)
(* processed before the run ended.                                         *)
(***************************************************************************)
C9_DuplicatesReached ==
    ~args.dry_run =>
        /\ InRootOrder
        /\ \A n \in DuplicateNames :
              /\ ProcessedAsCopyThenConflict(n)
              /\ (pc = "done" /\ exitCode = 0 /\ args.conflict = "overwrite")
                    => DestEntry(fs, n) = Last(n)
              /\ (pc = "done" /\ exitCode = 0 /\ args.conflict = "skip")
                    => DestEntry(fs, n) = First(n)
              /\ args.conflict = "abort"
                    => /\ pc # "raised"
                       /\ \A i \in Occurrences(n) :
                             i # Min(Occurrences(n)) => i \notin DOMAIN ops
                       /\ pc = "done" =>
                             /\ exitCode = 2
                             /\ Min(Occurrences(n)) \in DOMAIN ops
                                   => DestEntry(fs, n) = First(n)

\* A run under overwrite over two roots that hold the same name with
\* different content: the later root's content is at the destination.
C9_Witness ==
    /\ pc = "done" /\ exitCode = 0 /\ ~args.dry_run
    /\ args.conflict = "overwrite"
    /\ \E n \in DuplicateNames :
          /\ First(n) # Last(n)
          /\ DestEntry(fs, n) = Last(n)
          /\ RootIndex(skills[Min(Occurrences(n))]) < RootIndex(skills[Max(Occurrences(n))])

(***************************************************************************)
(* C10. Prune safety and ordering: pruning starts only with --mode sync    *)
(* and --prune, after every skill of the list was processed and none       *)
(* aborted; what it removes (announces, in a dry run) is a top-level       *)
(* destination entry that is a non-hidden directory directly containing    *)
(* the marker file and whose name is no discovered skill name; nothing     *)
(* else leaves the destination root; and the pruned count is the number    *)
(* of removals.                                                            *)
(***************************************************************************)
PruneStarted == pc = "prune" \/ PruneOps # {} \/ pruned > 0

C10_PruneSafety ==
    /\ PruneStarted =>
          /\ args.mode = "sync" /\ args.prune
          /\ Len(skills) <= Len(ops)
          /\ \A i \in DOMAIN skills : ops[i].act # "prune" /\ ops[i].skill = skills[i]
          /\ \A i \in PruneOps : i > Len(skills)
          /\ ~(pc = "done" /\ exitCode = 2)
          /\ pc # "raised"
    /\ \A i \in PruneOps :
          /\ parent(ops[i].skill) = args.dest
          /\ name(ops[i].skill) \notin SkillNames
          /\ IsDestSkill(fs0, ops[i].skill)
          /\ args.dry_run => DestEntry(fs, name(ops[i].skill)) = DestEntry(fs0, name(ops[i].skill))
          /\ ~args.dry_run => DestEntry(fs, name(ops[i].skill)) = {}
          /\ \A j \in PruneOps : ops[j].skill = ops[i].skill => j = i
    /\ pruned = Cardinality(PruneOps)
    /\ \A p \in iterdir(fs0, args.dest) :
          DestEntry(fs, name(p)) = {} =>
              \/ \E i \in PruneOps : ops[i].skill = p
              \/ pc = "copytree" /\ action = "overwrite" /\ name(skills[idx]) = name(p)

\* A pruning run that removed a stale skill, kept a hidden skill directory
\* and overwrote a directory without the marker file.
C10_Witness ==
    /\ pc = "done" /\ exitCode = 0 /\ ~args.dry_run
    /\ pruned = 1
    /\ counts.overwrite = 1
    /\ IsDestSkill(fs0, <<"dest", "b">>) /\ DestEntry(fs, "b") = {}
    /\ DestEntry(fs, ".h") # {} /\ DestEntry(fs, ".h") = DestEntry(fs0, ".h")
    /\ <<<<"dest", "a">>, "dir">> \in fs0 /\ ~IsDestSkill(fs0, <<"dest", "a">>)

====
